---- MODULE Spec2Model ----
(***************************************************************************)
(* A model of ipfs_io: IPFS_Files (files.py) keeps, in the cassandra table *)
(* "files", the ipfs cid and a timestamp of every stored filename, and     *)
(* stores the bytes in an ipfs-cluster through the commands of ipfs_io.py. *)
(* Several callers use the same table and cluster concurrently; every      *)
(* cassandra query and every ipfs command is one atomic step, and each of  *)
(* them may fail.                                                          *)
(***************************************************************************)
EXTENDS Integers, Sequences, FiniteSets, TLC

(***************************************************************************)
(* Bounds of the model.                                                    *)
(***************************************************************************)
\* the number of method calls made in a behaviour, over all callers
MaxCalls == 3

Procs == {"p1", "p2"}
Filenames == {"a", "b"}
LocalFiles == {"empty.bin", "report.pdf"}
\* the values time.time() returns
Clock == {1}

(***************************************************************************)
(* Python values: a value carries its type.                                *)
(***************************************************************************)
None == [type |-> "NoneType", v |-> 0]
PyInt(n) == [type |-> "int", v |-> n]
PyFloat(n) == [type |-> "float", v |-> n]
PyStr(n) == [type |-> "str", v |-> n]
PyBool(b) == [type |-> "bool", v |-> IF b THEN 1 ELSE 0]

\* str(x) of a number x
str(x) == PyStr(x.v)

\* float(x): defined on numbers and on strings that hold a number
FloatDefined(x) == x.type \in {"int", "float", "str"}
float(x) == PyFloat(x.v)

\* isinstance(x, (int, float))
IsNumber(x) == x.type \in {"int", "float"}

\* the truth value python gives x: None and zero are false
Truthy(x) == x.type # "NoneType" /\ ~(IsNumber(x) /\ x.v = 0)

\* the values a caller passes as the timestamp argument of upload and of link
UploadTimestampArgs == {None, PyInt(0), PyFloat(3), PyStr(3)}
LinkTimestampArgs == {None, PyInt(-1), PyFloat(3)}

(***************************************************************************)
(* The bytes of the local files and their content identifiers.             *)
(***************************************************************************)
FileBytes(ifn) == IF ifn = "empty.bin" THEN <<>> ELSE <<37, 80>>

\* the cid ipfs gives to the bytes: one cid per content
CidOf(bytes) == IF bytes = <<>> THEN "QmEmpty" ELSE "Qm123"

\* a local variable that is not bound yet
Unbound == "<unbound>"
NoFile == <<"<no file>">>

(***************************************************************************)
(* The cassandra table files(filename PRIMARY KEY, timestamp, ipfs_cid).   *)
(***************************************************************************)
NoRow == [absent |-> TRUE]

HasRow(tbl, filename) == tbl[filename] # NoRow

\* the INSERT of a cassandra table without a condition: an upsert
insert_upsert(tbl, filename, timestamp, ipfs_cid) ==
    [tbl EXCEPT ![filename] = [timestamp |-> timestamp, ipfs_cid |-> ipfs_cid]]

\* INSERT INTO files (filename, timestamp, ipfs_cid) VALUES ... IF NOT EXISTS
insert_files(tbl, filename, timestamp, ipfs_cid) ==
    IF HasRow(tbl, filename)
    THEN tbl
    ELSE [tbl EXCEPT ![filename] = [timestamp |-> timestamp, ipfs_cid |-> ipfs_cid]]

\* UPDATE files SET timestamp=... WHERE filename=... IF EXISTS
\* an update that creates the row of a filename that has none
update_upsert(tbl, timestamp, filename) ==
    IF HasRow(tbl, filename)
    THEN [tbl EXCEPT ![filename].timestamp = timestamp]
    ELSE [tbl EXCEPT ![filename] = [timestamp |-> timestamp, ipfs_cid |-> Unbound]]

update_timestamp(tbl, timestamp, filename) ==
    IF HasRow(tbl, filename)
    THEN [tbl EXCEPT ![filename].timestamp = timestamp]
    ELSE tbl

\* DELETE FROM files WHERE filename=? IF EXISTS
\* a delete that takes with the row every row of the same cid
delete_files_by_cid(tbl, filename) ==
    [f \in DOMAIN tbl |->
        IF f = filename \/ (HasRow(tbl, filename) /\ HasRow(tbl, f)
                              /\ tbl[f].ipfs_cid = tbl[filename].ipfs_cid)
        THEN NoRow ELSE tbl[f]]

delete_files(tbl, filename) == [tbl EXCEPT ![filename] = NoRow]

\* SELECT ipfs_cid FROM files WHERE filename=?  followed by .one():
\* the empty sequence stands for None, otherwise the row of one column
select_ipfs_cid(tbl, filename) ==
    IF HasRow(tbl, filename) THEN <<tbl[filename].ipfs_cid>> ELSE <<>>

\* SELECT timestamp FROM files WHERE filename=?  followed by .one()
select_timestamp(tbl, filename) ==
    IF HasRow(tbl, filename) THEN <<tbl[filename].timestamp>> ELSE <<>>

\* SELECT count(*) FROM files WHERE filename=?  followed by .one()
select_contains(tbl, filename) ==
    IF HasRow(tbl, filename) THEN <<1>> ELSE <<0>>

(***************************************************************************)
(* The commands of ipfs_io.py.                                             *)
(***************************************************************************)
\* the words ipfs-cluster-ctl add prints: added <cid> <name>
ClusterAddStdout(ifn) == <<"added", CidOf(FileBytes(ifn)), ifn>>

\* a parse of the output that takes its first word
upload_ipfs_first_word(stdout) == stdout[1]

\* upload_ipfs returns _run_command(cmd).split()[1]
upload_ipfs(stdout) == stdout[2]

\* the parameters of download_ipfs and the keywords download() calls it with
download_ipfs_params == {"ipfs_cid", "ofn", "ip", "port"}
download_keywords == {"ipfs_cid", "ofn", "ip", "timeout"}

(***************************************************************************)
(* The state.                                                              *)
(***************************************************************************)
VARIABLES
    files,      \* the cassandra table: filename -> row or NoRow
    pins,       \* the cids pinned in the ipfs-cluster
    blocks,     \* the contents the ipfs-cluster has been given
    ofiles,     \* per caller, the bytes of the output file of its download
    frame,      \* per caller, the method it is in: its position, arguments and locals
    calls,      \* per caller, the queries and commands its current or last method issued
    ret,        \* per caller, how its last method ended
    ncalls      \* the number of method calls made so far

vars == <<files, pins, blocks, ofiles, frame, calls, ret, ncalls>>

IdleFrame ==
    [op |-> "none", pc |-> "idle", ipfs_fn |-> "a", src |-> "a", ifn |-> "empty.bin",
     arg |-> None, timestamp |-> None, ipfs_cid |-> Unbound]

NoRet == [exc |-> "none", value |-> None]

Init ==
    /\ files = [f \in Filenames |-> NoRow]
    /\ pins = {}
    /\ blocks = {}
    /\ ofiles = [p \in Procs |-> NoFile]
    /\ frame = [p \in Procs |-> IdleFrame]
    /\ calls = [p \in Procs |-> <<>>]
    /\ ret = [p \in Procs |-> NoRet]
    /\ ncalls = 0

Idle(p) == frame[p].pc = "idle"

\* a caller enters a method
CanCall(p) == Idle(p) /\ ncalls < MaxCalls

Call(name, result) == [call |-> name, res |-> result]

\* the method returns value
Return(p, value) == ret' = [ret EXCEPT ![p] = [exc |-> "ok", value |-> value]]

\* the method raises exc
Raise(p, exc) == ret' = [ret EXCEPT ![p] = [exc |-> exc, value |-> None]]

\* the method goes on: it has not ended yet
Running(p) == ret' = [ret EXCEPT ![p] = NoRet]

\* the caller's frame at position pc of method op
Enter(p, op, pc, ipfs_fn, src, ifn, timestamp, ipfs_cid) ==
    frame' = [frame EXCEPT ![p] =
                 [op |-> op, pc |-> pc, ipfs_fn |-> ipfs_fn, src |-> src, ifn |-> ifn,
                  arg |-> None, timestamp |-> timestamp, ipfs_cid |-> ipfs_cid]]

\* the frame of upload after upload_ipfs: arg is the timestamp argument as the
\* caller passed it, timestamp the local the method goes on with
EnterUpload(p, ipfs_fn, ifn, arg, timestamp, ipfs_cid) ==
    frame' = [frame EXCEPT ![p] =
                 [op |-> "upload", pc |-> "insert_files", ipfs_fn |-> ipfs_fn,
                  src |-> ipfs_fn, ifn |-> ifn, arg |-> arg, timestamp |-> timestamp,
                  ipfs_cid |-> ipfs_cid]]

Goto(p, pc) == frame' = [frame EXCEPT ![p].pc = pc]

\* the method has ended: its arguments and locals are gone, the model keeps the
\* method's name, its filename and its cid to state properties of the call
Done(p) ==
    frame' = [frame EXCEPT ![p].pc = "idle", ![p].src = frame[p].ipfs_fn,
                           ![p].ifn = "empty.bin", ![p].arg = None,
                           ![p].timestamp = None]

Issue(p, name, result) == calls' = [calls EXCEPT ![p] = Append(@, Call(name, result))]
First(p, name, result) == calls' = [calls EXCEPT ![p] = <<Call(name, result)>>]

Applied(b) == IF b THEN "applied" ELSE "not applied"

(***************************************************************************)
(* upload(ifn, ipfs_fn, timestamp): files.py 240-267                       *)
(***************************************************************************)
\* lines 250-252 and 279-281: the timestamp the method goes on with
resolve_timestamp(timestamp, now) ==
    IF ~Truthy(timestamp) \/ ~IsNumber(timestamp) THEN str(PyFloat(now)) ELSE timestamp

\* the timestamps lines 250-252 and 279-281 give, over the arguments and the clock
ResolvedTimestamps(args) ==
    {resolve_timestamp(a[1], a[2]) : a \in args \X Clock}

\* an upload that goes on to its insert when upload_ipfs has failed
UploadPutGoesOn(p) ==
    /\ CanCall(p)
    /\ ncalls' = ncalls + 1
    /\ \E ifn \in LocalFiles, ipfs_fn \in Filenames,
          timestamp \in UploadTimestampArgs, now \in Clock, ok \in BOOLEAN :
        /\ IF ok
           THEN /\ blocks' = blocks \cup {FileBytes(ifn)}
                /\ pins' = pins \cup {CidOf(FileBytes(ifn))}
           ELSE UNCHANGED <<blocks, pins>>
        /\ EnterUpload(p, ipfs_fn, ifn, timestamp, resolve_timestamp(timestamp, now),
                       IF ok THEN upload_ipfs(ClusterAddStdout(ifn)) ELSE Unbound)
        /\ First(p, "add", IF ok THEN "ok" ELSE "failed")
        /\ Running(p)
    /\ UNCHANGED <<files, ofiles>>

\* lines 250-254: the timestamp is resolved and upload_ipfs adds the file to the
\* cluster; a failed command raises RuntimeError out of upload
UploadPut(p) ==
    /\ CanCall(p)
    /\ ncalls' = ncalls + 1
    /\ \E ifn \in LocalFiles, ipfs_fn \in Filenames, timestamp \in UploadTimestampArgs,
          now \in Clock, ok \in BOOLEAN :
        IF ok
        THEN /\ blocks' = blocks \cup {FileBytes(ifn)}
             /\ pins' = pins \cup {CidOf(FileBytes(ifn))}
             /\ EnterUpload(p, ipfs_fn, ifn, timestamp, resolve_timestamp(timestamp, now),
                            upload_ipfs(ClusterAddStdout(ifn)))
             /\ First(p, "add", "ok")
             /\ Running(p)
        ELSE /\ Enter(p, "upload", "idle", ipfs_fn, ipfs_fn, "empty.bin", None, Unbound)
             /\ First(p, "add", "failed")
             /\ Raise(p, "RuntimeError: command failed")
             /\ UNCHANGED <<blocks, pins>>
    /\ UNCHANGED <<files, ofiles>>

\* lines 256-267: the conditional insert; a failed query raises FAILED_METADATA
UploadInsert(p) ==
    /\ frame[p].op = "upload" /\ frame[p].pc = "insert_files"
    /\ \E ok \in BOOLEAN :
        IF ok
        THEN /\ files' = insert_files(files, frame[p].ipfs_fn, frame[p].timestamp,
                                      frame[p].ipfs_cid)
             /\ Issue(p, "insert_files", Applied(~HasRow(files, frame[p].ipfs_fn)))
             /\ Return(p, None)
        ELSE /\ Issue(p, "insert_files", "failed")
             /\ Raise(p, "FAILED_METADATA")
             /\ UNCHANGED files
    /\ Done(p)
    /\ UNCHANGED <<pins, blocks, ofiles, ncalls>>

(***************************************************************************)
(* _get_ipfs_cid(ipfs_fn): files.py 191-208, as the first step of          *)
(* download, link and delete                                               *)
(***************************************************************************)
\* the outcome of _get_ipfs_cid: the exception it raises, or "ok"
get_ipfs_cid_exc(ok, row) ==
    IF ~ok THEN "FAILED_METADATA"
    ELSE IF row = <<>> THEN "RuntimeError: file does not exists"
    ELSE "ok"

get_ipfs_cid_res(ok, row) ==
    IF ~ok THEN "failed" ELSE IF row = <<>> THEN "none" ELSE "row"

(***************************************************************************)
(* download(ipfs_fn, ofn): files.py 211-237                                *)
(***************************************************************************)
\* line 220
DownloadCid(p) ==
    /\ CanCall(p)
    /\ ncalls' = ncalls + 1
    /\ \E ipfs_fn \in Filenames, ok \in BOOLEAN :
        LET row == select_ipfs_cid(files, ipfs_fn)
            exc == get_ipfs_cid_exc(ok, row)
        IN  /\ First(p, "select_ipfs_cid", get_ipfs_cid_res(ok, row))
            /\ IF exc = "ok"
               THEN /\ Enter(p, "download", "download_ipfs", ipfs_fn, ipfs_fn,
                             "empty.bin", None, row[1])
                    /\ Running(p)
               ELSE /\ Enter(p, "download", "idle", ipfs_fn, ipfs_fn,
                             "empty.bin", None, Unbound)
                    /\ Raise(p, exc)
    /\ UNCHANGED <<files, pins, blocks, ofiles>>

\* lines 222-237: download_ipfs is called with the keyword timeout, which is none
\* of its parameters (ipfs_io.py 34): the call raises TypeError before any command
\* is run, and download raises FAILED_FILE from it. With matching keywords the
\* command ipfs get writes the bytes of the cid to ofn.
DownloadIpfs(p) ==
    /\ frame[p].op = "download" /\ frame[p].pc = "download_ipfs"
    /\ IF download_keywords \subseteq download_ipfs_params
       THEN \E ok \in BOOLEAN :
             IF ok /\ \E b \in blocks : CidOf(b) = frame[p].ipfs_cid
             THEN /\ ofiles' = [ofiles EXCEPT ![p] =
                                  CHOOSE b \in blocks : CidOf(b) = frame[p].ipfs_cid]
                  /\ Issue(p, "get", "ok")
                  /\ Return(p, None)
             ELSE /\ Issue(p, "get", "failed")
                  /\ Raise(p, "FAILED_FILE")
                  /\ UNCHANGED ofiles
       ELSE /\ Raise(p, "FAILED_FILE")
            /\ UNCHANGED <<ofiles, calls>>
    /\ Done(p)
    /\ UNCHANGED <<files, pins, blocks, ncalls>>

(***************************************************************************)
(* link(src, dst, timestamp): files.py 270-299                             *)
(***************************************************************************)
\* line 283: -1 == timestamp
IsMinusOne(timestamp) == IsNumber(timestamp) /\ timestamp.v = -1

\* lines 279-284: the timestamp is resolved; -1 takes the timestamp of src with
\* get_timestamp, whose query may fail and whose float() may raise
LinkTimestamp(p) ==
    /\ CanCall(p)
    /\ ncalls' = ncalls + 1
    /\ \E src \in Filenames, dst \in Filenames, ts \in ResolvedTimestamps(LinkTimestampArgs),
          ok \in BOOLEAN :
        LET res == select_timestamp(files, src)
        IN  IF ~IsMinusOne(ts)
            THEN /\ ok
                 /\ Enter(p, "link", "select_ipfs_cid", dst, src, "empty.bin", ts, Unbound)
                 /\ calls' = [calls EXCEPT ![p] = <<>>]
                 /\ Running(p)
            ELSE IF ~ok
            THEN /\ Enter(p, "link", "idle", dst, dst, "empty.bin", None, Unbound)
                 /\ First(p, "select_timestamp", "failed")
                 /\ Raise(p, "FAILED_METADATA")
            ELSE IF res = <<>>
            THEN /\ Enter(p, "link", "select_ipfs_cid", dst, src, "empty.bin", None, Unbound)
                 /\ First(p, "select_timestamp", "none")
                 /\ Running(p)
            ELSE IF FloatDefined(res[1])
            THEN /\ Enter(p, "link", "select_ipfs_cid", dst, src, "empty.bin",
                          float(res[1]), Unbound)
                 /\ First(p, "select_timestamp", "row")
                 /\ Running(p)
            ELSE /\ Enter(p, "link", "idle", dst, dst, "empty.bin", None, Unbound)
                 /\ First(p, "select_timestamp", "row")
                 /\ Raise(p, "TypeError")
    /\ UNCHANGED <<files, pins, blocks, ofiles>>

\* line 286
LinkCid(p) ==
    /\ frame[p].op = "link" /\ frame[p].pc = "select_ipfs_cid"
    /\ \E ok \in BOOLEAN :
        LET row == select_ipfs_cid(files, frame[p].src)
            exc == get_ipfs_cid_exc(ok, row)
        IN  /\ Issue(p, "select_ipfs_cid", get_ipfs_cid_res(ok, row))
            /\ IF exc = "ok"
               THEN /\ frame' = [frame EXCEPT ![p].pc = "insert_files",
                                              ![p].ipfs_cid = row[1]]
                    /\ UNCHANGED ret
               ELSE /\ Done(p)
                    /\ Raise(p, exc)
    /\ UNCHANGED <<files, pins, blocks, ofiles, ncalls>>

\* lines 288-299: the conditional insert of dst; the handler of a failed query
\* formats its message with ipfs_fn, a name link does not have: NameError
LinkInsert(p) ==
    /\ frame[p].op = "link" /\ frame[p].pc = "insert_files"
    /\ \E ok \in BOOLEAN :
        IF ok
        THEN /\ files' = insert_files(files, frame[p].ipfs_fn, frame[p].timestamp,
                                      frame[p].ipfs_cid)
             /\ Issue(p, "insert_files", Applied(~HasRow(files, frame[p].ipfs_fn)))
             /\ Return(p, None)
        ELSE /\ Issue(p, "insert_files", "failed")
             /\ Raise(p, "NameError")
             /\ UNCHANGED files
    /\ Done(p)
    /\ UNCHANGED <<pins, blocks, ofiles, ncalls>>

(***************************************************************************)
(* delete(ipfs_fn): files.py 302-321                                       *)
(***************************************************************************)
\* line 308
DeleteCid(p) ==
    /\ CanCall(p)
    /\ ncalls' = ncalls + 1
    /\ \E ipfs_fn \in Filenames, ok \in BOOLEAN :
        LET row == select_ipfs_cid(files, ipfs_fn)
            exc == get_ipfs_cid_exc(ok, row)
        IN  /\ First(p, "select_ipfs_cid", get_ipfs_cid_res(ok, row))
            /\ IF exc = "ok"
               THEN /\ Enter(p, "delete", "delete_files", ipfs_fn, ipfs_fn,
                             "empty.bin", None, row[1])
                    /\ Running(p)
               ELSE /\ Enter(p, "delete", "idle", ipfs_fn, ipfs_fn,
                             "empty.bin", None, Unbound)
                    /\ Raise(p, exc)
    /\ UNCHANGED <<files, pins, blocks, ofiles>>

\* a delete that goes on to unpin when its query has failed
DeleteFilesGoesOn(p) ==
    /\ frame[p].op = "delete" /\ frame[p].pc = "delete_files"
    /\ \E ok \in BOOLEAN :
        IF ok
        THEN /\ files' = delete_files(files, frame[p].ipfs_fn)
             /\ Issue(p, "delete_files", Applied(HasRow(files, frame[p].ipfs_fn)))
        ELSE /\ Issue(p, "delete_files", "failed")
             /\ UNCHANGED files
    /\ Goto(p, "unpin_ipfs")
    /\ UNCHANGED <<ret, pins, blocks, ofiles, ncalls>>

\* lines 310-319: the conditional delete; a failed query raises FAILED_METADATA
DeleteFiles(p) ==
    /\ frame[p].op = "delete" /\ frame[p].pc = "delete_files"
    /\ \E ok \in BOOLEAN :
        IF ok
        THEN /\ files' = delete_files(files, frame[p].ipfs_fn)
             /\ Issue(p, "delete_files", Applied(HasRow(files, frame[p].ipfs_fn)))
             /\ Goto(p, "unpin_ipfs")
             /\ UNCHANGED ret
        ELSE /\ Issue(p, "delete_files", "failed")
             /\ Done(p)
             /\ Raise(p, "FAILED_METADATA")
             /\ UNCHANGED files
    /\ UNCHANGED <<pins, blocks, ofiles, ncalls>>

\* a delete that keeps the pin of a cid that a row of the table holds
DeleteUnpinRefCounted(p) ==
    /\ frame[p].op = "delete" /\ frame[p].pc = "unpin_ipfs"
    /\ \E ok \in BOOLEAN :
        IF ok
        THEN /\ pins' = IF \E f \in Filenames : /\ HasRow(files, f)
                                                /\ files[f].ipfs_cid = frame[p].ipfs_cid
                        THEN pins
                        ELSE pins \ {frame[p].ipfs_cid}
             /\ Issue(p, "pin rm", "ok")
             /\ Return(p, None)
        ELSE /\ Issue(p, "pin rm", "failed")
             /\ Raise(p, "RuntimeError: command failed")
             /\ UNCHANGED pins
    /\ Done(p)
    /\ UNCHANGED <<files, blocks, ofiles, ncalls>>

\* line 321: unpin_ipfs removes the pin; a failed command raises RuntimeError
\* out of delete (ipfs_io.py 19-31)
DeleteUnpin(p) ==
    /\ frame[p].op = "delete" /\ frame[p].pc = "unpin_ipfs"
    /\ \E ok \in BOOLEAN :
        IF ok
        THEN /\ pins' = pins \ {frame[p].ipfs_cid}
             /\ Issue(p, "pin rm", "ok")
             /\ Return(p, None)
        ELSE /\ Issue(p, "pin rm", "failed")
             /\ Raise(p, "RuntimeError: command failed")
             /\ UNCHANGED pins
    /\ Done(p)
    /\ UNCHANGED <<files, blocks, ofiles, ncalls>>

(***************************************************************************)
(* __contains__, get_timestamp, update_timestamp: files.py 143-188         *)
(***************************************************************************)
Contains(p) ==
    /\ CanCall(p)
    /\ ncalls' = ncalls + 1
    /\ \E ipfs_fn \in Filenames, ok \in BOOLEAN :
        /\ Enter(p, "contains", "idle", ipfs_fn, ipfs_fn, "empty.bin", None, Unbound)
        /\ IF ok
           THEN /\ First(p, "select_contains", "row")
                /\ Return(p, PyBool(select_contains(files, ipfs_fn)[1] # 0))
           ELSE /\ First(p, "select_contains", "failed")
                /\ Raise(p, "FAILED_METADATA")
    /\ UNCHANGED <<files, pins, blocks, ofiles>>

\* what get_timestamp does with the result res of its query
get_timestamp_exc(res) ==
    IF res # <<>> /\ ~FloatDefined(res[1]) THEN "TypeError" ELSE "ok"

\* a get_timestamp that gives a filename without a row the timestamp 0
get_timestamp_default(res) == IF res = <<>> THEN PyFloat(0) ELSE float(res[1])

get_timestamp_value(res) == IF res = <<>> THEN None ELSE float(res[1])

GetTimestamp(p) ==
    /\ CanCall(p)
    /\ ncalls' = ncalls + 1
    /\ \E ipfs_fn \in Filenames, ok \in BOOLEAN :
        LET res == select_timestamp(files, ipfs_fn)
        IN  /\ Enter(p, "get_timestamp", "idle", ipfs_fn, ipfs_fn, "empty.bin", None, Unbound)
            /\ IF ~ok
               THEN /\ First(p, "select_timestamp", "failed")
                    /\ Raise(p, "FAILED_METADATA")
               ELSE /\ First(p, "select_timestamp", IF res = <<>> THEN "none" ELSE "row")
                    /\ IF get_timestamp_exc(res) = "ok"
                       THEN Return(p, get_timestamp_value(res))
                       ELSE Raise(p, get_timestamp_exc(res))
    /\ UNCHANGED <<files, pins, blocks, ofiles>>

\* what update_timestamp returns after its query ran
update_timestamp_value(wasApplied) == PyBool(TRUE)

UpdateTimestamp(p) ==
    /\ CanCall(p)
    /\ ncalls' = ncalls + 1
    /\ \E ipfs_fn \in Filenames, now \in Clock, ok \in BOOLEAN :
        /\ Enter(p, "update_timestamp", "idle", ipfs_fn, ipfs_fn, "empty.bin", None, Unbound)
        /\ IF ok
           THEN /\ files' = update_timestamp(files, str(PyFloat(now)), ipfs_fn)
                /\ First(p, "update_timestamp", Applied(HasRow(files, ipfs_fn)))
                /\ Return(p, update_timestamp_value(HasRow(files, ipfs_fn)))
           ELSE /\ First(p, "update_timestamp", "failed")
                /\ Raise(p, "FAILED_METADATA")
                /\ UNCHANGED files
    /\ UNCHANGED <<pins, blocks, ofiles>>

(***************************************************************************)
(* A caller may stop between two steps of a method.                        *)
(***************************************************************************)
Crash(p) ==
    /\ ~Idle(p)
    /\ Done(p)
    /\ Raise(p, "crashed")
    /\ UNCHANGED <<files, pins, blocks, ofiles, calls, ncalls>>

Next ==
    \E p \in Procs :
        \/ UploadPut(p) \/ UploadInsert(p)
        \/ DownloadCid(p) \/ DownloadIpfs(p)
        \/ LinkTimestamp(p) \/ LinkCid(p) \/ LinkInsert(p)
        \/ DeleteCid(p) \/ DeleteFiles(p) \/ DeleteUnpin(p)
        \/ Contains(p) \/ GetTimestamp(p) \/ UpdateTimestamp(p)
        \/ Crash(p)

Spec == Init /\ [][Next]_vars

\* the callers use every method but link
NextNoLink ==
    \E p \in Procs :
        \/ UploadPut(p) \/ UploadInsert(p)
        \/ DownloadCid(p) \/ DownloadIpfs(p)
        \/ DeleteCid(p) \/ DeleteFiles(p) \/ DeleteUnpin(p)
        \/ Contains(p) \/ GetTimestamp(p) \/ UpdateTimestamp(p)
        \/ Crash(p)

SpecNoLink == Init /\ [][NextNoLink]_vars

\* the object is constructed on a keyspace whose table, created by an earlier
\* instance, has the row of a file that was uploaded: CREATE TABLE IF NOT EXISTS
\* keeps the rows
InitPopulated ==
    /\ files = [f \in Filenames |->
                   IF f = "a"
                   THEN [timestamp |-> str(PyFloat(1)),
                         ipfs_cid |-> upload_ipfs(ClusterAddStdout("empty.bin"))]
                   ELSE NoRow]
    /\ pins = {CidOf(FileBytes("empty.bin"))}
    /\ blocks = {FileBytes("empty.bin")}
    /\ ofiles = [p \in Procs |-> NoFile]
    /\ frame = [p \in Procs |-> IdleFrame]
    /\ calls = [p \in Procs |-> <<>>]
    /\ ret = [p \in Procs |-> NoRet]
    /\ ncalls = 0

SpecPopulated == InitPopulated /\ [][Next]_vars

(***************************************************************************)
(* Properties.                                                             *)
(***************************************************************************)
\* caller p's last method was op and has ended, not by a crash of the caller
Ended(p, op) == frame[p].op = op /\ Idle(p) /\ ret[p].exc # "crashed"

\* the positions in p's trace of the calls named name
Positions(p, name) == {i \in DOMAIN calls[p] : calls[p][i].call = name}

\* the cids of the contents the cluster has been given
StoredCids == {CidOf(b) : b \in blocks}

TypeOK ==
    /\ DOMAIN files = Filenames
    /\ pins \subseteq StoredCids
    /\ ncalls \in 0..MaxCalls
    /\ \A p \in Procs : Len(calls[p]) <= 3


\* caller p takes a step of its method: its part of the state changes
Steps(p) == <<frame[p], calls[p], ret[p]>> # <<frame'[p], calls'[p], ret'[p]>>

(***************************************************************************)
(* C1: upload issues its insert only after upload_ipfs has returned: the   *)
(* insert is the second call of an upload and follows a successful add; an *)
(* upload whose add fails ends there, raising the command's error, and its *)
(* step leaves the table as it was, so that a filename without a row has   *)
(* none afterwards.                                                        *)
(***************************************************************************)
C1_InsertFollowsAdd ==
    \A p \in Procs : frame[p].op = "upload" =>
        /\ \A i \in Positions(p, "insert_files") :
              i = 2 /\ calls[p][1] = Call("add", "ok")
        /\ calls[p][1].res = "failed" =>
              /\ calls[p] = <<Call("add", "failed")>>
              /\ Idle(p)
              /\ ret[p].exc = "RuntimeError: command failed"

C1_FailedAddKeepsTable ==
    \A p \in Procs :
        (Steps(p) /\ frame'[p].op = "upload" /\ calls'[p] = <<Call("add", "failed")>>)
            => /\ files' = files
               /\ \A f \in Filenames : ~HasRow(files, f) => ~HasRow(files', f)

C1_ContentBeforeMetadata == []C1_InsertFollowsAdd /\ [][C1_FailedAddKeepsTable]_vars

C1_Witness ==
    \E p \in Procs :
        /\ Ended(p, "upload")
        /\ calls[p] = <<Call("add", "failed")>>
        /\ ~HasRow(files, frame[p].ipfs_fn)

(***************************************************************************)
(* C2: in a delete the removal of the row precedes the unpin: pin rm is    *)
(* the third call and follows a delete_files query that did not fail; a   *)
(* delete whose delete_files query fails issues no pin rm and ends raising *)
(* FAILED_METADATA.                                                        *)
(***************************************************************************)
C2_DeleteBeforeUnpin ==
    \A p \in Procs : frame[p].op = "delete" =>
        /\ \A i \in Positions(p, "pin rm") :
              /\ i = 3
              /\ calls[p][2].call = "delete_files"
              /\ calls[p][2].res # "failed"
        /\ (Len(calls[p]) >= 2 /\ calls[p][2] = Call("delete_files", "failed")) =>
              /\ Positions(p, "pin rm") = {}
              /\ Idle(p)
              /\ ret[p].exc = "FAILED_METADATA"

C2_Witness ==
    \E p \in Procs :
        /\ Ended(p, "delete")
        /\ calls[p] = <<Call("select_ipfs_cid", "row"), Call("delete_files", "failed")>>
        /\ ret[p].exc = "FAILED_METADATA"
        /\ frame[p].ipfs_cid \in pins

\* caller p takes the insert step of its upload or link, and the query runs
InsertStep(p) ==
    /\ frame[p].op \in {"upload", "link"}
    /\ frame[p].pc = "insert_files"
    /\ frame'[p].pc = "idle"
    /\ ret'[p].exc = "ok"

\* the result the last call of p's trace had
LastRes(c) == c[Len(c)].res

(***************************************************************************)
(* C3: while a filename keeps its row, no step of any method changes the   *)
(* row's ipfs_cid; the insert of an upload to a filename that has a row    *)
(* is not applied and leaves the cid of the row as it was.                 *)
(***************************************************************************)
C3_CidKept ==
    /\ \A f \in Filenames :
          (HasRow(files, f) /\ HasRow(files', f)) =>
              files'[f].ipfs_cid = files[f].ipfs_cid
    /\ \A p \in Procs :
          (InsertStep(p) /\ frame[p].op = "upload" /\ HasRow(files, frame[p].ipfs_fn)) =>
              /\ LastRes(calls'[p]) = "not applied"
              /\ files'[frame[p].ipfs_fn].ipfs_cid = files[frame[p].ipfs_fn].ipfs_cid

C3_ContentIdImmutable == [][C3_CidKept]_vars

\* a second upload, of other content, has ended and the row has the first cid
C3_Witness ==
    \E p \in Procs :
        /\ Ended(p, "upload")
        /\ Len(calls[p]) = 2
        /\ calls[p][2] = Call("insert_files", "not applied")
        /\ HasRow(files, frame[p].ipfs_fn)
        /\ files[frame[p].ipfs_fn].ipfs_cid # frame[p].ipfs_cid

(***************************************************************************)
(* C4: a download of a filename whose row was found, issued while the cid  *)
(* is pinned and with no failing query or command, ends without an error   *)
(* and its output file holds the bytes of the row's cid, those that were   *)
(* uploaded.                                                               *)
(***************************************************************************)
C4_RoundTrip ==
    \A p \in Procs :
        ( /\ Ended(p, "download")
          /\ calls[p][1] = Call("select_ipfs_cid", "row")
          /\ \A i \in DOMAIN calls[p] : calls[p][i].res # "failed"
          /\ frame[p].ipfs_cid \in pins )
        => /\ ret[p].exc = "ok"
           /\ \E ifn \in LocalFiles :
                 /\ CidOf(FileBytes(ifn)) = frame[p].ipfs_cid
                 /\ ofiles[p] = FileBytes(ifn)

(***************************************************************************)
(* C5: the insert of an upload or a link is applied exactly when the       *)
(* filename has no row at that step: the row it creates has the cid and    *)
(* the timestamp of that call, every other row is kept, and an insert that *)
(* finds a row changes nothing. Of the inserts racing for a filename only  *)
(* the first is applied.                                                   *)
(***************************************************************************)
C5_InsertOnce ==
    \A p \in Procs : InsertStep(p) =>
        LET f == frame[p].ipfs_fn
        IN  IF HasRow(files, f)
            THEN /\ files' = files
                 /\ LastRes(calls'[p]) = "not applied"
            ELSE /\ files' = [files EXCEPT ![f] = [timestamp |-> frame[p].timestamp,
                                                     ipfs_cid |-> frame[p].ipfs_cid]]
                 /\ LastRes(calls'[p]) = "applied"

C5_OneWinner == [][C5_InsertOnce]_vars

\* two inserts of different cids for one filename have ended: one was applied
\* and the row is its row
C5_Witness ==
    \E p \in Procs, q \in Procs :
        /\ p # q
        /\ frame[p].op \in {"upload", "link"} /\ Idle(p) /\ ret[p].exc = "ok"
        /\ frame[q].op \in {"upload", "link"} /\ Idle(q) /\ ret[q].exc = "ok"
        /\ frame[p].ipfs_fn = frame[q].ipfs_fn
        /\ LastRes(calls[p]) = "applied"
        /\ LastRes(calls[q]) = "not applied"
        /\ frame[p].ipfs_cid # frame[q].ipfs_cid
        /\ HasRow(files, frame[p].ipfs_fn)
        /\ files[frame[p].ipfs_fn].ipfs_cid = frame[p].ipfs_cid

(***************************************************************************)
(* C6: a delete whose conditional delete was not applied, because a        *)
(* concurrent delete of the filename removed the row first, ends without   *)
(* an error.                                                               *)
(***************************************************************************)
C6_LosingDeleteEndsOk ==
    \A p \in Procs :
        ( /\ Ended(p, "delete")
          /\ Len(calls[p]) >= 2
          /\ calls[p][2] = Call("delete_files", "not applied") )
        => ret[p].exc = "ok"

(***************************************************************************)
(* C7: the cid of every row is pinned in the cluster.                      *)
(***************************************************************************)
C7_RowsPinned ==
    \A f \in Filenames : HasRow(files, f) => files[f].ipfs_cid \in pins

(***************************************************************************)
(* C7, amended: the cid of every row is the cid of content the cluster     *)
(* has been given by an add that returned before the row was inserted      *)
(* (the content need not be pinned any more).                              *)
(***************************************************************************)
C7_RowsStored ==
    \A f \in Filenames : HasRow(files, f) => files[f].ipfs_cid \in StoredCids

\* a row whose content was stored and is not pinned any more
C7_Witness ==
    \E f \in Filenames :
        /\ HasRow(files, f)
        /\ files[f].ipfs_cid \in StoredCids \ pins

(***************************************************************************)
(* C8: a delete that has removed the row and issued its unpin ends         *)
(* without an error, whatever the unpin did.                               *)
(***************************************************************************)
C8_UnpinFailureNotRaised ==
    \A p \in Procs :
        ( /\ Ended(p, "delete")
          /\ Len(calls[p]) = 3
          /\ calls[p][2].call = "delete_files" /\ calls[p][2].res # "failed"
          /\ calls[p][3].call = "pin rm" )
        => ret[p].exc = "ok"

(***************************************************************************)
(* C9: a download and a delete of a filename without a row end raising the *)
(* file-does-not-exist error with the lookup as their only call: no        *)
(* change of the table, no get, no unpin; get_timestamp of a filename      *)
(* without a row returns None, not an error and not a number.              *)
(***************************************************************************)
C9_Missing ==
    \A p \in Procs :
        (Steps(p) /\ Idle(p) /\ ~HasRow(files, frame'[p].ipfs_fn)
                  /\ frame'[p].op \in {"download", "delete", "get_timestamp"}
                  /\ calls'[p][1].res # "failed") =>
            /\ frame'[p].op \in {"download", "delete"} =>
                  /\ ret'[p].exc = "RuntimeError: file does not exists"
                  /\ frame'[p].pc = "idle"
                  /\ calls'[p] = <<Call("select_ipfs_cid", "none")>>
                  /\ UNCHANGED <<files, pins, blocks, ofiles>>
            /\ frame'[p].op = "get_timestamp" =>
                  /\ ret'[p] = [exc |-> "ok", value |-> None]
                  /\ UNCHANGED <<files, pins, blocks, ofiles>>

C9_NotFound == [][C9_Missing]_vars

C9_Witness ==
    /\ \E p \in Procs :
          /\ Ended(p, "get_timestamp")
          /\ calls[p] = <<Call("select_timestamp", "none")>>
          /\ ret[p] = [exc |-> "ok", value |-> None]
    /\ \E p \in Procs :
          /\ Ended(p, "delete")
          /\ calls[p] = <<Call("select_ipfs_cid", "none")>>
          /\ ret[p].exc = "RuntimeError: file does not exists"

(***************************************************************************)
(* C10: update_timestamp returns True exactly when its update was applied  *)
(* to a row, and False when the filename has no row.                       *)
(***************************************************************************)
C10_UpdateReturnsApplied ==
    \A p \in Procs :
        (Ended(p, "update_timestamp") /\ ret[p].exc = "ok") =>
            ret[p].value = PyBool(calls[p][1].res = "applied")

\* caller p takes the delete_files step of its delete, and the query runs
DeleteStep(p) ==
    /\ frame[p].op = "delete"
    /\ frame[p].pc = "delete_files"
    /\ frame'[p].pc = "unpin_ipfs"

\* caller p takes the unpin_ipfs step of its delete
UnpinStep(p) ==
    /\ frame[p].op = "delete"
    /\ frame[p].pc = "unpin_ipfs"
    /\ frame'[p].pc = "idle"
    /\ ret'[p].exc # "crashed"

(***************************************************************************)
(* C11: the delete of a filename removes the row of that filename and no   *)
(* other: after its delete_files step the filename has no row and every    *)
(* other filename has the row it had, with the cid it had, also a filename *)
(* that link gave the same cid; the unpin step leaves the table as it was. *)
(***************************************************************************)
C11_OnlyOwnRow ==
    \A p \in Procs :
        /\ DeleteStep(p) =>
              /\ ~HasRow(files', frame[p].ipfs_fn)
              /\ \A f \in Filenames \ {frame[p].ipfs_fn} : files'[f] = files[f]
        /\ UnpinStep(p) => files' = files

C11_DeleteKeepsAlias == [][C11_OnlyOwnRow]_vars

\* a link of a to b was applied, the delete of a was applied and has ended:
\* a has no row, b has its row with the cid the delete looked up for a
C11_Witness ==
    \E p \in Procs, q \in Procs :
        /\ Ended(p, "delete")
        /\ Len(calls[p]) = 3
        /\ calls[p][2] = Call("delete_files", "applied")
        /\ ret[p].exc = "ok"
        /\ Ended(q, "link")
        /\ ret[q].exc = "ok"
        /\ calls[q] # <<>>
        /\ LastRes(calls[q]) = "applied"
        /\ frame[q].ipfs_fn # frame[p].ipfs_fn
        /\ ~HasRow(files, frame[p].ipfs_fn)
        /\ HasRow(files, frame[q].ipfs_fn)
        /\ files[frame[q].ipfs_fn].ipfs_cid = frame[p].ipfs_cid
        /\ frame[q].ipfs_cid = frame[p].ipfs_cid

\* caller p's link took the timestamp of src: its first call is get_timestamp's
CopySource(p) ==
    /\ frame[p].op = "link"
    /\ calls[p] # <<>>
    /\ calls[p][1].call = "select_timestamp"

(***************************************************************************)
(* C12: a link that takes the timestamp of src and whose insert is applied *)
(* gives dst a row with the ipfs_cid of src's row and with the timestamp   *)
(* of src's row; a link whose lookup of src finds no row ends raising the  *)
(* lookup's error and leaves the table as it was.                          *)
(***************************************************************************)
C12_CopySourceTimestamp ==
    \A p \in Procs :
        /\ ( /\ InsertStep(p)
             /\ CopySource(p)
             /\ LastRes(calls'[p]) = "applied"
             /\ HasRow(files, frame[p].src) ) =>
               /\ files'[frame[p].ipfs_fn].ipfs_cid = files[frame[p].src].ipfs_cid
               /\ files'[frame[p].ipfs_fn].timestamp = files[frame[p].src].timestamp
        /\ ( /\ frame[p].op = "link"
             /\ frame[p].pc = "select_ipfs_cid"
             /\ frame'[p].pc = "idle"
             /\ ret'[p].exc # "crashed"
             /\ LastRes(calls'[p]) = "none" ) =>
               /\ ret'[p].exc = "RuntimeError: file does not exists"
               /\ files' = files

C12_LinkCopiesTimestamp == [][C12_CopySourceTimestamp]_vars

(***************************************************************************)
(* C13: an upload whose insert is applied stores the timestamp argument    *)
(* when it is a number, 0 included, so that get_timestamp of the filename  *)
(* gives that number; it stores the time of the clock, as a string, only   *)
(* when the argument is None or is not a number.                           *)
(***************************************************************************)
C13_StoresArgument ==
    \A p \in Procs :
        ( /\ InsertStep(p)
          /\ frame[p].op = "upload"
          /\ LastRes(calls'[p]) = "applied" ) =>
            LET res == select_timestamp(files', frame[p].ipfs_fn)
            IN  IF IsNumber(frame[p].arg)
                THEN get_timestamp_value(res) = float(frame[p].arg)
                ELSE res[1] \in {str(PyFloat(now)) : now \in Clock}

C13_UploadTimestamp == [][C13_StoresArgument]_vars

(***************************************************************************)
(* C14: in every state the timestamp of every row of the table is a        *)
(* string: no row holds a number or None as its timestamp, whichever of    *)
(* upload, link and update_timestamp wrote it.                             *)
(***************************************************************************)
C14_TimestampIsString ==
    \A f \in Filenames :
        HasRow(files, f) => files[f].timestamp.type = "str"

\* caller p's upload or link has ended with its insert run, with result res
InsertEnded(p, res) ==
    /\ Ended(p, "upload") \/ Ended(p, "link")
    /\ calls[p] # <<>>
    /\ calls[p][Len(calls[p])] = Call("insert_files", res)

(***************************************************************************)
(* C15: an upload or link whose insert was not applied, the filename       *)
(* having a row, ends with an outcome that differs from the outcome of an  *)
(* upload or link whose insert was applied.                                *)
(***************************************************************************)
C15_NotAppliedIsSeen ==
    \A p \in Procs, q \in Procs :
        (InsertEnded(p, "applied") /\ InsertEnded(q, "not applied")) =>
            ret[p] # ret[q]

\* caller p takes the insert step of its upload or link, and the query fails
FailedInsertStep(p) ==
    /\ frame[p].op \in {"upload", "link"}
    /\ frame[p].pc = "insert_files"
    /\ frame'[p].pc = "idle"
    /\ ret'[p].exc # "crashed"
    /\ LastRes(calls'[p]) = "failed"

(***************************************************************************)
(* C16: an upload or link whose insert query fails ends raising            *)
(* FAILED_METADATA, the step leaves the table as it was, and the content   *)
(* the upload has added stays stored and pinned.                           *)
(***************************************************************************)
C16_FailedInsert ==
    \A p \in Procs :
        FailedInsertStep(p) =>
            /\ ret'[p].exc = "FAILED_METADATA"
            /\ files' = files
            /\ frame[p].op = "upload" =>
                  (frame[p].ipfs_cid \in StoredCids' /\ pins' = pins)

C16_InsertFailureIsTyped == [][C16_FailedInsert]_vars

(***************************************************************************)
(* C17: a delete issues its unpin only when its own delete_files was       *)
(* applied: in every trace of a delete that holds a pin rm, the call       *)
(* before it is a delete_files that was applied, so that the callers have  *)
(* issued no more unpins than rows were removed.                           *)
(***************************************************************************)
C17_UnpinOnlyIfApplied ==
    \A p \in Procs :
        frame[p].op = "delete" =>
            \A i \in Positions(p, "pin rm") :
                i > 1 /\ calls[p][i - 1] = Call("delete_files", "applied")

\* caller p takes its update_timestamp, and the update is applied to filename f
UpdateStep(p, f) ==
    /\ Idle(p)
    /\ ncalls' = ncalls + 1
    /\ frame'[p].op = "update_timestamp"
    /\ frame'[p].ipfs_fn = f
    /\ calls'[p] = <<Call("update_timestamp", "applied")>>
    /\ \A q \in Procs \ {p} : ~Steps(q)

\* caller p takes a step of one of the methods ops
StepOf(p, ops) == Steps(p) /\ frame'[p].op \in ops

C18_Frame ==
    /\ files' # files =>
          /\ \A f \in Filenames :
                /\ (~HasRow(files, f) /\ HasRow(files', f)) =>
                      \E p \in Procs : InsertStep(p) /\ frame[p].ipfs_fn = f
                /\ (HasRow(files, f) /\ HasRow(files', f)
                      /\ files'[f].timestamp # files[f].timestamp) =>
                      \E p \in Procs : UpdateStep(p, f)
                /\ (HasRow(files, f) /\ ~HasRow(files', f)) =>
                      \E p \in Procs : DeleteStep(p) /\ frame[p].ipfs_fn = f
          /\ \A p \in Procs :
                /\ ~StepOf(p, {"download", "contains", "get_timestamp"})
                /\ StepOf(p, {"update_timestamp"}) => HasRow(files, frame'[p].ipfs_fn)
    /\ <<pins', blocks'>> # <<pins, blocks>> =>
          \A p \in Procs : ~StepOf(p, {"link"})
    /\ \A p \in Procs :
          ( /\ Idle(p)
            /\ StepOf(p, {"update_timestamp"})
            /\ ~HasRow(files, frame'[p].ipfs_fn)
            /\ ret'[p].exc = "ok" ) =>
              calls'[p] = <<Call("update_timestamp", "not applied")>>

(***************************************************************************)
(* C18: a row appears only in the insert step of an upload or link, the    *)
(* timestamp of a row changes only in an update_timestamp, a row goes only *)
(* in the delete_files step of a delete; the steps of download,            *)
(* __contains__ and get_timestamp leave the table as it was, also when     *)
(* they fail; update_timestamp of a filename without a row creates none;   *)
(* no step of link changes the pins or the stored contents.                *)
(***************************************************************************)
C18_FrameOfOperations == [][C18_Frame]_vars

\* an update_timestamp of a filename without a row has ended, not applied, the
\* filename has no row; the other caller's link has ended, and the only cid
\* pinned is the one of its source
C18_Witness ==
    \E p \in Procs, q \in Procs :
        /\ Ended(p, "update_timestamp")
        /\ calls[p] = <<Call("update_timestamp", "not applied")>>
        /\ ~HasRow(files, frame[p].ipfs_fn)
        /\ Ended(q, "link")
        /\ InsertEnded(q, "not applied")
        /\ pins = {frame[q].ipfs_cid}

(***************************************************************************)
(* C19: the unpin step of a delete, when its command succeeds, removes the *)
(* pin of the cid the delete looked up, whether or not a row of the table  *)
(* holds that cid: a row of another filename may keep a cid that is not    *)
(* pinned any more.                                                        *)
(***************************************************************************)
C19_Unpins ==
    \A p \in Procs :
        (UnpinStep(p) /\ LastRes(calls'[p]) = "ok") =>
            pins' = pins \ {frame[p].ipfs_cid}

C19_NoReferenceCount == [][C19_Unpins]_vars

\* a delete has ended without an error, another filename has a row with the
\* cid the delete has unpinned, and the cid is not pinned
C19_Witness ==
    \E p \in Procs, f \in Filenames :
        /\ Ended(p, "delete")
        /\ ret[p].exc = "ok"
        /\ calls[p][3] = Call("pin rm", "ok")
        /\ f # frame[p].ipfs_fn
        /\ HasRow(files, f)
        /\ files[f].ipfs_cid = frame[p].ipfs_cid
        /\ frame[p].ipfs_cid \notin pins

(***************************************************************************)
(* C20: the row that the delete_files step of a delete removes holds the   *)
(* cid that the delete looked up in its first step, the one it goes on to  *)
(* unpin, under every interleaving with the deletes, uploads and links of  *)
(* the other callers on the same filename.                                 *)
(***************************************************************************)
C20_SameRow ==
    \A p \in Procs :
        (DeleteStep(p) /\ LastRes(calls'[p]) = "applied") =>
            files[frame[p].ipfs_fn].ipfs_cid = frame[p].ipfs_cid

C20_UnpinsRemovedRow == [][C20_SameRow]_vars

====
